---- MODULE Spec2Model ----
(***************************************************************************)
(* A model of asterism's editing core: the patch engine (EditPlan::apply), *)
(* the session state machine (AppState) and the key dispatch of run_app.   *)
(*                                                                         *)
(* Conventions.                                                            *)
(*  - A string is the sequence of its pieces between newlines: "a\nb\n"    *)
(*    is <<a, b, empty>>.  A file on disk is such a string, so piece i+1   *)
(*    is the line with 0-based number i.                                   *)
(*  - A piece is a record: a heading ("## Title") or plain text.           *)
(*  - Vec indices are 1-based here (Rust index i is i+1); 0 stands for     *)
(*    Option::None.  Line numbers keep the 0-based values of the code.     *)
(*  - Byte offsets are offsets of line starts, counted in lines.           *)
(***************************************************************************)
EXTENDS Integers, Sequences, FiniteSets, TLC

(***************************************************************************)
(* Bounds of the model                                                     *)
(***************************************************************************)
\* key events of one session
MaxKeys == 9
\* key events of one session in which an I/O operation fails, or which was
\* started from a persisted plan
MaxFaultKeys == 6

(***************************************************************************)
(* Text                                                                    *)
(***************************************************************************)
T(s) == [kind |-> "text", level |-> 0, text |-> s]
Empty == T("")
\* format!("{} {}", "#".repeat(level), title)
H(l, t) == [kind |-> "heading", level |-> l, text |-> t]

EmptyStr == <<Empty>>
NL == <<Empty, Empty>>

\* two pieces meeting without a newline between them
Merge(p, q) ==
    IF p = Empty THEN q
    ELSE IF q = Empty THEN p
    ELSE T(p.text \o q.text)

\* string concatenation
Cat(a, b) == SubSeq(a, 1, Len(a) - 1) \o <<Merge(a[Len(a)], b[1])>> \o Tail(b)

RECURSIVE TrimStart(_)
TrimStart(s) ==
    IF Len(s) > 1 /\ s[1] = Empty THEN TrimStart(Tail(s)) ELSE s

RECURSIVE TrimEnd(_)
TrimEnd(s) ==
    IF Len(s) > 1 /\ s[Len(s)] = Empty THEN TrimEnd(SubSeq(s, 1, Len(s) - 1)) ELSE s

\* str::trim
Trim(s) == TrimEnd(TrimStart(s))

\* the text of lines [from, to) of a string, each with its newline
LinesOf(c, from, to) == SubSeq(c, from + 1, to) \o <<Empty>>

\* number of lines of a rope (the piece after the last newline counts)
LenLines(c) == Len(c)

(***************************************************************************)
(* Files of a session                                                      *)
(***************************************************************************)
AllPaths == <<"a.md", "b.md">>
PathSet == {AllPaths[i] : i \in 1..Len(AllPaths)}

(***************************************************************************)
(* I/O failures: an io::Error of one operation on one file                 *)
(***************************************************************************)
NoFault == [op |-> "none", file |-> ""]
\* read: fs::read_to_string fails; write: fs::write fails; parse:
\* extract_sections returns Err although the file can be read
Faults == [op : {"read", "write", "parse"}, file : PathSet]

CanRead(fault, f) == ~(fault.op = "read" /\ fault.file = f)
CanWrite(fault, f) == ~(fault.op = "write" /\ fault.file = f)
\* a parser that never fails
CanParse_always(fault, f) == TRUE

CanParse(fault, f) == CanRead(fault, f) /\ ~(fault.op = "parse" /\ fault.file = f)

\* the orders in which a HashMap keyed by file may be iterated
FileOrders == {<<"a.md", "b.md">>, <<"b.md", "a.md">>}

(***************************************************************************)
(* Patch engine: EditPlan::apply over textum line boundaries               *)
(***************************************************************************)
Err == [ok |-> FALSE, content |-> EmptyStr]
Ok(c) == [ok |-> TRUE, content |-> c]

\* Boundary::new(Target::Line(n), mode) as the start of a Between snippet:
\* the 0-based line at which the selection begins
StartLine(mode, n) == IF mode = "Include" THEN n ELSE n + 1

\* an end boundary that takes its line along, whatever the mode
EndLine_inclusive(mode, n) == n + 1

\* ... and as its end: the 0-based line before which the selection ends
EndLine(mode, n) == IF mode = "Exclude" THEN n ELSE n + 1

\* the text from the start of line n to the end of the rope
FromLine(c, n) == IF n < Len(c) THEN SubSeq(c, n + 1, Len(c)) ELSE EmptyStr

\* format!("\n{}\n", edit.doc_comment.trim())
Replacement(doc_comment) == Cat(Cat(NL, Trim(doc_comment)), NL)

\* one Patch {snippet: Between {start, end}, replacement} applied to a rope
ApplyPatch(c, from, to, replacement) ==
    IF from <= to /\ to < LenLines(c)
    THEN Ok(Cat(Cat(LinesOf(c, 0, from), replacement), FromLine(c, to)))
    ELSE Err

\* the Patch that apply() builds from one Edit
PatchOf(c, edit) ==
    ApplyPatch(c, StartLine("Include", edit.line_start),
                  EndLine("Exclude", edit.line_end),
                  Replacement(edit.doc_comment))

\* the edits of a plan for one file, in plan order
EditsFor(edits, f) == SelectSeq(edits, LAMBDA e : e.file_name = f)

\* PatchSet::apply_to_files for one file: patches are applied from the
\* highest start line down, so that earlier ranges stay valid
RECURSIVE ApplyPatchSet(_, _)
ApplyPatchSet(c, edits) ==
    IF edits = <<>> THEN Ok(c)
    ELSE LET i == CHOOSE k \in 1..Len(edits) :
                    \A j \in 1..Len(edits) :
                        /\ edits[j].line_start <= edits[k].line_start
                        /\ (edits[j].line_start = edits[k].line_start => j <= k)
             rest == SubSeq(edits, 1, i - 1) \o SubSeq(edits, i + 1, Len(edits))
             r == PatchOf(c, edits[i])
         IN IF r.ok THEN ApplyPatchSet(r.content, rest) ELSE Err

\* EditPlan::apply with the file groups visited in the given order: the
\* first failing file stops the loop, files written before it stay written
RECURSIVE ApplyPlan(_, _, _, _)
ApplyPlan(edits, d, order, fault) ==
    IF order = <<>> THEN [ok |-> TRUE, disk |-> d]
    ELSE LET f == Head(order)
             r == IF CanRead(fault, f)
                  THEN ApplyPatchSet(d[f], EditsFor(edits, f))
                  ELSE Err
         IN IF r.ok /\ CanWrite(fault, f)
            THEN ApplyPlan(edits, [d EXCEPT ![f] = r.content], Tail(order), fault)
            ELSE [ok |-> FALSE, disk |-> d]

(***************************************************************************)
(* Parser capability: extract_sections                                     *)
(***************************************************************************)
\* the pieces that tree-sitter reports as atx_heading
IsHeading(p) == p.kind = "heading" /\ p.level \in 1..6

\* 1-based positions of the heading pieces, in document order
HeadingRows(c) == SelectSeq([i \in 1..Len(c) |-> i], LAMBDA i : IsHeading(c[i]))

\* 0-based row on which the text ends
EofLine(c) == IF c[Len(c)] = Empty THEN Len(c) - 1 ELSE Len(c)

\* nearest earlier heading of a smaller level (index local to the file)
ParentOf(c, rows, k) ==
    LET up == {j \in 1..(k - 1) : c[rows[j]].level < c[rows[k]].level}
    IN IF up = {} THEN 0 ELSE CHOOSE j \in up : \A i \in up : i <= j

ChildrenOf(c, rows, k) ==
    SelectSeq([j \in 1..Len(rows) |-> j], LAMBDA j : ParentOf(c, rows, j) = k)

\* extract_sections(path): sections of one file in document order, built
\* from a fresh read; coordinates are those of the content after a heading
\* up to the next heading or the end of the file
extract_sections(path, c) ==
    LET rows == HeadingRows(c)
    IN [k \in 1..Len(rows) |->
          LET h == c[rows[k]]
              next == IF k < Len(rows) THEN rows[k + 1] - 1 ELSE EofLine(c)
          IN [title |-> h.text,
              level |-> h.level,
              line_start |-> rows[k],
              line_end |-> next,
              column_start |-> 0,
              column_end |-> h.level + 1 + Len(h.text),
              byte_start |-> rows[k],
              byte_end |-> next,
              file_path |-> path,
              parent_index |-> ParentOf(c, rows, k),
              children_indices |-> ChildrenOf(c, rows, k),
              doc_comment |-> <<>>]]

\* the loop "for file in files: if let Ok(secs) = extract_sections(file)"
RECURSIVE extract_all(_, _)
extract_all(fs, d) ==
    IF fs = <<>> THEN <<>>
    ELSE extract_sections(Head(fs), d[Head(fs)]) \o extract_all(Tail(fs), d)

(***************************************************************************)
(* Documents the sessions start from                                       *)
(***************************************************************************)
Body(s) == <<Empty, T(s), Empty>>

SingleDisk ==
    [f \in PathSet |->
        IF f = "a.md"
        THEN <<H(2, "A")>> \o Body("a") \o <<H(1, "B")>> \o Body("b")
                \o <<H(2, "C")>> \o Body("c") \o <<Empty>>
        ELSE EmptyStr]

MultiDisk ==
    [f \in PathSet |->
        IF f = "a.md"
        THEN <<H(2, "A")>> \o Body("a") \o <<Empty>>
        ELSE <<H(1, "B")>> \o Body("b") \o <<H(2, "C")>> \o Body("c") \o <<Empty>>]

\* one file in which two sections have the same title and level
TwinDisk ==
    [f \in PathSet |->
        IF f = "b.md"
        THEN <<H(1, "A")>> \o Body("a") \o <<H(1, "A")>> \o Body("b") \o <<Empty>>
        ELSE EmptyStr]

Docs == {[files |-> <<"a.md">>, disk |-> SingleDisk],
         [files |-> <<"a.md", "b.md">>, disk |-> MultiDisk],
         [files |-> <<"b.md">>, disk |-> TwinDisk]}

\* what the editor widget can be made to hold by typing
EditBuffers == {<<Empty, T("x"), Empty>>, <<Empty, T("y"), T("z"), Empty>>}

(***************************************************************************)
(* State                                                                   *)
(***************************************************************************)
VARIABLES
    disk,                  \* the file system: path -> content
    running,               \* the event loop of run_app has not returned
    sections, tree_nodes, files, file_mode,
    current_view, current_node_index, editor_state, command_buffer,
    message, file_offsets, move_state, moving_section_index,
    plan, plan_status,     \* an EditPlan handed to apply(), and its result
    fs_fault,              \* the I/O operation that fails in this session
    loaded,                \* the EditPlan read from --load-docs, if any
    report,                \* the EditPlan printed when the event loop is left
    difft,                 \* difftastic output handed to the parser, and its result
    \* history of the run, read by the properties only
    save_log,              \* drifts recorded since the last full reparse
    saved_text,            \* <<file, k>> -> text last saved into k-th section
    move_origin,           \* section list and index at start_move
    move_log,              \* move actions that took effect since start_move
    cancelled,             \* a reorder with moves was cancelled
    n_commits,             \* reorders committed so far
    last_commit,           \* the moves and the section of the last commit
    command_from,          \* the view in which ':' opened the Command view
    n_keys                 \* key events handled so far

vars == <<disk, running, sections, tree_nodes, files, file_mode,
          current_view, current_node_index, editor_state, command_buffer,
          message, file_offsets, move_state, moving_section_index,
          plan, plan_status, fs_fault, loaded, report, difft,
          save_log, saved_text, move_origin, move_log, cancelled,
          n_commits, last_commit, command_from, n_keys>>

\* the state as one value, so that methods compose
State ==
    [disk |-> disk, running |-> running, sections |-> sections,
     tree_nodes |-> tree_nodes, files |-> files, file_mode |-> file_mode,
     current_view |-> current_view, current_node_index |-> current_node_index,
     editor_state |-> editor_state, command_buffer |-> command_buffer,
     message |-> message, file_offsets |-> file_offsets,
     move_state |-> move_state, moving_section_index |-> moving_section_index,
     plan |-> plan, plan_status |-> plan_status, fs_fault |-> fs_fault,
     loaded |-> loaded, report |-> report, difft |-> difft,
     save_log |-> save_log, saved_text |-> saved_text,
     move_origin |-> move_origin, move_log |-> move_log,
     cancelled |-> cancelled, n_commits |-> n_commits,
     last_commit |-> last_commit, command_from |-> command_from,
     n_keys |-> n_keys]

Becomes(s) ==
    /\ disk' = s.disk
    /\ running' = s.running
    /\ sections' = s.sections
    /\ tree_nodes' = s.tree_nodes
    /\ files' = s.files
    /\ file_mode' = s.file_mode
    /\ current_view' = s.current_view
    /\ current_node_index' = s.current_node_index
    /\ editor_state' = s.editor_state
    /\ command_buffer' = s.command_buffer
    /\ message' = s.message
    /\ file_offsets' = s.file_offsets
    /\ move_state' = s.move_state
    /\ moving_section_index' = s.moving_section_index
    /\ plan' = s.plan
    /\ plan_status' = s.plan_status
    /\ fs_fault' = s.fs_fault
    /\ loaded' = s.loaded
    /\ report' = s.report
    /\ difft' = s.difft
    /\ save_log' = s.save_log
    /\ saved_text' = s.saved_text
    /\ move_origin' = s.move_origin
    /\ move_log' = s.move_log
    /\ cancelled' = s.cancelled
    /\ n_commits' = s.n_commits
    /\ last_commit' = s.last_commit
    /\ command_from' = s.command_from
    /\ n_keys' = s.n_keys

NoEditor == [open |-> FALSE, lines |-> <<>>, mode |-> "Normal"]
\* EditorState::new(lines)
EditorState(lines) == [open |-> TRUE, lines |-> lines, mode |-> "Normal"]

NoMessage == "None"
NoOrigin == [sections |-> <<>>, index |-> 0]
NoCommit == [log |-> <<>>, title |-> "", file |-> ""]
NoOffsets == [f \in {} |-> 0]
NoReport == [printed |-> FALSE, edits |-> <<>>]
NoDiff == [files |-> <<>>, status |-> "none", sections |-> <<>>]

\* iter().position(..): 1-based index of the first match, 0 for None
Position(seq, P(_)) ==
    IF \E i \in 1..Len(seq) : P(seq[i])
    THEN CHOOSE i \in 1..Len(seq) : P(seq[i]) /\ \A j \in 1..(i - 1) : ~P(seq[j])
    ELSE 0

\* iter().rposition(..)
RPosition(seq, P(_)) ==
    IF \E i \in 1..Len(seq) : P(seq[i])
    THEN CHOOSE i \in 1..Len(seq) : P(seq[i]) /\ \A j \in (i + 1)..Len(seq) : ~P(seq[j])
    ELSE 0

(***************************************************************************)
(* Tree of files and sections                                              *)
(***************************************************************************)
FileNode(path) == [navigable |-> FALSE, section_index |-> 0, path |-> path]
SectionNode(sec, idx) == [navigable |-> TRUE, section_index |-> idx, path |-> sec.file_path]

\* sorted_files.sort()
SortedFiles(fs) ==
    SelectSeq(AllPaths, LAMBDA f : \E i \in 1..Len(fs) : fs[i] = f)

RECURSIVE FileSubtrees(_, _)
FileSubtrees(fs, secs) ==
    IF fs = <<>> THEN <<>>
    ELSE LET f == Head(fs)
             idxs == SelectSeq([i \in 1..Len(secs) |-> i],
                               LAMBDA i : secs[i].file_path = f)
         IN <<FileNode(f)>>
              \o [k \in 1..Len(idxs) |-> SectionNode(secs[idxs[k]], idxs[k])]
              \o FileSubtrees(Tail(fs), secs)

build_tree(fs, secs) ==
    IF Len(fs) = 1
    THEN [i \in 1..Len(secs) |-> SectionNode(secs[i], i)]
    ELSE FileSubtrees(SortedFiles(fs), secs)

get_current_section_index(s) ==
    IF s.current_node_index <= Len(s.tree_nodes)
    THEN s.tree_nodes[s.current_node_index].section_index
    ELSE 0

\* the node that shows section idx, if any, becomes the current node
FollowSection(s, idx) ==
    LET node == Position(s.tree_nodes, LAMBDA n : n.section_index = idx)
    IN IF node # 0 THEN [s EXCEPT !.current_node_index = node] ELSE s

rebuild_tree(s) ==
    LET s1 == [s EXCEPT !.tree_nodes = build_tree(s.files, s.sections)]
        cur == get_current_section_index(s1)
    IN IF cur # 0 THEN FollowSection(s1, cur) ELSE s1

(***************************************************************************)
(* Offset tracker                                                          *)
(***************************************************************************)
rebuild_file_offsets(s) ==
    LET idx == get_current_section_index(s)
    IN IF idx # 0 /\ idx <= Len(s.sections)
       THEN LET section == s.sections[idx]
                lines_added == IF s.editor_state.open
                               THEN Len(s.editor_state.lines) ELSE 0
            IN [s EXCEPT !.file_offsets =
                    (section.file_path :> (section.line_start :> lines_added))]
       ELSE [s EXCEPT !.file_offsets = NoOffsets]

RECURSIVE SumOver(_, _)
SumOver(m, keys) ==
    IF keys = {} THEN 0
    ELSE LET k == CHOOSE x \in keys : TRUE
         IN m[k] + SumOver(m, keys \ {k})

\* cumulative_offset for a file and a target line
CumulativeBefore(offsets, target_file, target_line) ==
    IF target_file \in DOMAIN offsets
    THEN LET file_map == offsets[target_file]
         IN SumOver(file_map, {l \in DOMAIN file_map : l < target_line})
    ELSE 0

cumulative_offset(s, index) ==
    CumulativeBefore(s.file_offsets, s.sections[index].file_path,
                     s.sections[index].line_start)

(***************************************************************************)
(* Detail view and section save                                            *)
(***************************************************************************)
\* bytes.len(), as a line offset
ByteLen(c) == EofLine(c)

Min(a, b) == IF a < b THEN a ELSE b

\* &bytes[from..to]
Slice(c, from, to) == IF from <= to THEN LinesOf(c, from, to) ELSE EmptyStr

enter_detail_view(s) ==
    LET idx == get_current_section_index(s)
    IN IF idx = 0 THEN s
       ELSE LET section == s.sections[idx]
                content == s.disk[section.file_path]
                section_content ==
                    Slice(content, Min(section.byte_start, ByteLen(content)),
                                   Min(section.byte_end, ByteLen(content)))
                lines_text == IF Trim(section_content) = EmptyStr
                              THEN NL
                              ELSE Cat(Cat(NL, Trim(section_content)), NL)
            IN IF CanRead(s.fs_fault, section.file_path)
               THEN [s EXCEPT !.editor_state = EditorState(lines_text),
                              !.current_view = "Detail"]
               ELSE [s EXCEPT !.current_view = "Detail"]

exit_detail_view(s, save) ==
    LET idx == get_current_section_index(s)
        s1 == IF save /\ s.editor_state.open /\ idx # 0
              THEN [s EXCEPT !.sections[idx].doc_comment = s.editor_state.lines]
              ELSE s
    IN [s1 EXCEPT !.editor_state = NoEditor, !.current_view = "List"]

\* the rank of a section among those of its file, by coordinates
RankInFile(secs, idx) ==
    1 + Cardinality({j \in 1..Len(secs) :
                        /\ secs[j].file_path = secs[idx].file_path
                        /\ secs[j].line_start < secs[idx].line_start})

\* history: what save_current has just written and recorded
NoteSave(s0, s, idx, text) ==
    LET sec == s0.sections[idx]
        cur == get_current_section_index(s)
        rec == IF cur # 0 /\ cur <= Len(s.sections)
               THEN <<[file |-> s.sections[cur].file_path,
                       line |-> s.sections[cur].line_start,
                       added |-> Len(s.editor_state.lines)]>>
               ELSE <<>>
    IN [s EXCEPT !.saved_text[<<sec.file_path, RankInFile(s0.sections, idx)>>] = text,
                 !.save_log = @ \o rec,
                 !.move_log = IF s.move_state # "None" THEN <<"save">> ELSE @]

\* a match by title and level that takes the last one
MatchingSection_last(new_sections, section) ==
    RPosition(new_sections, LAMBDA x : x.title = section.title
                                       /\ x.level = section.level)

\* new_sections.iter().position(|s| s.title == target_title && s.level ==
\* target_level)
MatchingSection(new_sections, section) ==
    Position(new_sections, LAMBDA x : x.title = section.title
                                      /\ x.level = section.level)

\* a save that keeps the section list of before the write
reload_sections_skipped(s, section) == s

\* "Reload sections": the file of the saved section is reparsed, its
\* sections are spliced in and the selection is resolved by title and level
reload_sections(s, section) ==
    LET new_sections == extract_sections(section.file_path,
                                         s.disk[section.file_path])
        kept == SelectSeq(s.sections, LAMBDA x : x.file_path # section.file_path)
        local_index == MatchingSection(new_sections, section)
        s1 == rebuild_tree([s EXCEPT !.sections = kept \o new_sections])
    IN IF ~CanParse(s.fs_fault, section.file_path) THEN s
       ELSE IF local_index # 0 THEN FollowSection(s1, Len(kept) + local_index)
       ELSE s1

\* returns the new state and whether the result is Ok
save_current(s) ==
    LET idx == get_current_section_index(s)
    IN IF ~s.editor_state.open \/ idx = 0 THEN [st |-> s, ok |-> TRUE]
       ELSE
       LET editor_lines == s.editor_state.lines
           s1 == [s EXCEPT !.sections[idx].doc_comment = editor_lines]
           section == s1.sections[idx]
           raw_content == editor_lines
           trimmed_content == Trim(raw_content)
           padded_content == Cat(Cat(Cat(NL, trimmed_content), NL), NL)
           edit == [file_name |-> section.file_path,
                    line_start |-> section.line_start,
                    line_end |-> section.line_end,
                    column_start |-> section.column_start,
                    column_end |-> section.column_end,
                    doc_comment |-> padded_content,
                    item_name |-> section.title]
           applied == ApplyPlan(<<edit>>, s1.disk, <<section.file_path>>, s1.fs_fault)
       IN IF ~applied.ok THEN [st |-> s1, ok |-> FALSE]
          ELSE
          LET s2 == [s1 EXCEPT !.disk = applied.disk]
              s4 == reload_sections(s2, section)
              s5 == [rebuild_file_offsets(s4) EXCEPT !.message = "Saved"]
          IN [st |-> NoteSave(s, s5, idx, trimmed_content), ok |-> TRUE]

(***************************************************************************)
(* Rewriting a file from the section list                                  *)
(***************************************************************************)
\* a section emitted with its body right under the heading
SectionText_tight(content, section) ==
    LET heading == <<H(section.level, section.title)>>
        section_text ==
            IF section.byte_start < ByteLen(content)
               /\ section.byte_end <= ByteLen(content)
            THEN Trim(Slice(content, section.byte_start, section.byte_end))
            ELSE EmptyStr
        head == Cat(heading, NL)
    IN IF section_text # EmptyStr
       THEN Cat(Cat(head, section_text), Cat(NL, NL))
       ELSE head

\* the text that rewrite_file_sections emits for one section
SectionText(content, section) ==
    LET heading == <<H(section.level, section.title)>>
        section_text ==
            IF section.byte_start < ByteLen(content)
               /\ section.byte_end <= ByteLen(content)
            THEN Trim(Slice(content, section.byte_start, section.byte_end))
            ELSE EmptyStr
        head == Cat(heading, Cat(NL, NL))
    IN IF section_text # EmptyStr
       THEN Cat(Cat(head, section_text), Cat(NL, NL))
       ELSE head

RECURSIVE RewrittenContent(_, _)
RewrittenContent(content, secs) ==
    IF secs = <<>> THEN EmptyStr
    ELSE Cat(SectionText(content, Head(secs)),
             RewrittenContent(content, Tail(secs)))

\* a rewrite that emits the sections last to first
rewrite_file_sections_reversed(d, file_path, secs, fault) ==
    LET reversed == [k \in 1..Len(secs) |-> secs[Len(secs) + 1 - k]]
    IN IF CanRead(fault, file_path) /\ CanWrite(fault, file_path)
       THEN [ok |-> TRUE,
             disk |-> [d EXCEPT ![file_path] = RewrittenContent(d[file_path], reversed)]]
       ELSE [ok |-> FALSE, disk |-> d]

\* rewrite_file_sections(file_path, sections): the file is read, its new
\* content is built and written; either I/O step may fail
rewrite_file_sections(d, file_path, secs, fault) ==
    IF CanRead(fault, file_path) /\ CanWrite(fault, file_path)
    THEN [ok |-> TRUE,
          disk |-> [d EXCEPT ![file_path] = RewrittenContent(d[file_path], secs)]]
    ELSE [ok |-> FALSE, disk |-> d]

\* a loop that stops at a failing file without reporting the failure
RECURSIVE RewriteFiles_quiet(_, _, _, _)
RewriteFiles_quiet(d, paths, secs, fault) ==
    IF paths = <<>> THEN [ok |-> TRUE, disk |-> d]
    ELSE LET f == Head(paths)
             mine == SelectSeq(secs, LAMBDA x : x.file_path = f)
             r == IF mine # <<>> THEN rewrite_file_sections(d, f, mine, fault)
                  ELSE [ok |-> TRUE, disk |-> d]
         IN IF r.ok THEN RewriteFiles_quiet(r.disk, Tail(paths), secs, fault)
            ELSE [ok |-> TRUE, disk |-> r.disk]

\* the loop over file_sections, in the order the HashMap yields: every
\* file that has a section in the list is rewritten, the first failure
\* returns
RECURSIVE RewriteFiles(_, _, _, _)
RewriteFiles(d, paths, secs, fault) ==
    IF paths = <<>> THEN [ok |-> TRUE, disk |-> d]
    ELSE LET f == Head(paths)
             mine == SelectSeq(secs, LAMBDA x : x.file_path = f)
             r == IF mine # <<>> THEN rewrite_file_sections(d, f, mine, fault)
                  ELSE [ok |-> TRUE, disk |-> d]
         IN IF r.ok THEN RewriteFiles(r.disk, Tail(paths), secs, fault) ELSE r

\* the reload loop "for file in &self.files: if let Ok(secs) = .."
RECURSIVE reload_all(_, _, _)
reload_all(fs, d, fault) ==
    IF fs = <<>> THEN <<>>
    ELSE (IF CanParse(fault, Head(fs)) THEN extract_sections(Head(fs), d[Head(fs)])
          ELSE <<>>)
         \o reload_all(Tail(fs), d, fault)

(***************************************************************************)
(* Reorder protocol                                                        *)
(***************************************************************************)
\* a start that already reports a move
start_move_as_moved(s) ==
    LET idx == get_current_section_index(s)
    IN IF idx # 0
       THEN [s EXCEPT !.moving_section_index = idx,
                      !.move_state = "Moved",
                      !.move_origin = [sections |-> s.sections, index |-> idx],
                      !.move_log = <<>>]
       ELSE s

start_move(s) ==
    LET idx == get_current_section_index(s)
    IN IF idx # 0
       THEN [s EXCEPT !.moving_section_index = idx,
                      !.move_state = "Selected",
                      !.move_origin = [sections |-> s.sections, index |-> idx],
                      !.move_log = <<>>]
       ELSE s

cancel_move(s) ==
    [s EXCEPT !.moving_section_index = 0,
              !.move_state = "None",
              !.cancelled = @ \/ (s.move_state = "Moved"),
              !.move_origin = NoOrigin,
              !.move_log = <<>>]

mark_moved(s) == [s EXCEPT !.move_state = "Moved"]

\* history: a move action took effect
NoteMove(s, op) ==
    [s EXCEPT !.move_log = IF Len(@) < 3 THEN Append(@, op) ELSE <<"more">>]

Swap(seq, i, j) == [seq EXCEPT ![i] = seq[j], ![j] = seq[i]]
Remove(seq, i) == SubSeq(seq, 1, i - 1) \o SubSeq(seq, i + 1, Len(seq))

\* every move returns the new state and whether it took effect
Unmoved(s) == [st |-> s, moved |-> FALSE]
Moved(s, op) == [st |-> NoteMove(mark_moved(s), op), moved |-> TRUE]

move_section_up(s) ==
    LET moving_idx == s.moving_section_index
    IN IF moving_idx # 0 /\ moving_idx > 1
       THEN LET s1 == [s EXCEPT !.sections = Swap(@, moving_idx, moving_idx - 1),
                                !.moving_section_index = moving_idx - 1]
            IN Moved(FollowSection(rebuild_tree(s1), moving_idx - 1), "up")
       ELSE Unmoved(s)

\* a move down that writes the new order to the files at once
move_section_down_written(s) ==
    LET moving_idx == s.moving_section_index
    IN IF moving_idx # 0 /\ moving_idx < Len(s.sections)
       THEN LET s1 == [s EXCEPT !.sections = Swap(@, moving_idx, moving_idx + 1),
                                !.moving_section_index = moving_idx + 1]
                s2 == [s1 EXCEPT !.disk =
                          RewriteFiles(@, AllPaths, s1.sections, NoFault).disk]
            IN Moved(FollowSection(rebuild_tree(s2), moving_idx + 1), "down")
       ELSE Unmoved(s)

move_section_down(s) ==
    LET moving_idx == s.moving_section_index
    IN IF moving_idx # 0 /\ moving_idx < Len(s.sections)
       THEN LET s1 == [s EXCEPT !.sections = Swap(@, moving_idx, moving_idx + 1),
                                !.moving_section_index = moving_idx + 1]
            IN Moved(FollowSection(rebuild_tree(s1), moving_idx + 1), "down")
       ELSE Unmoved(s)

\* a move to the top that leaves the section at its old place as well
move_section_to_top_copied(s) ==
    LET moving_idx == s.moving_section_index
    IN IF moving_idx # 0 /\ moving_idx > 1
       THEN LET section == s.sections[moving_idx]
                s1 == [s EXCEPT !.sections = <<section>> \o @,
                                !.moving_section_index = 1]
            IN Moved(FollowSection(rebuild_tree(s1), 1), "top")
       ELSE Unmoved(s)

move_section_to_top(s) ==
    LET moving_idx == s.moving_section_index
    IN IF moving_idx # 0 /\ moving_idx > 1
       THEN LET section == s.sections[moving_idx]
                s1 == [s EXCEPT !.sections = <<section>> \o Remove(@, moving_idx),
                                !.moving_section_index = 1]
            IN Moved(FollowSection(rebuild_tree(s1), 1), "top")
       ELSE Unmoved(s)

move_section_to_bottom(s) ==
    LET moving_idx == s.moving_section_index
        last_idx == Len(s.sections)
    IN IF moving_idx # 0 /\ moving_idx < last_idx
       THEN LET section == s.sections[moving_idx]
                s1 == [s EXCEPT !.sections = Append(Remove(@, moving_idx), section),
                                !.moving_section_index = last_idx]
            IN Moved(FollowSection(rebuild_tree(s1), last_idx), "bottom")
       ELSE Unmoved(s)

\* a level-in that adds a marker instead of removing one
move_section_in_deeper(s) ==
    LET moving_idx == s.moving_section_index
    IN IF moving_idx # 0 /\ s.sections[moving_idx].level > 1
       THEN Moved(rebuild_tree([s EXCEPT !.sections[moving_idx].level = @ + 1]), "in")
       ELSE Unmoved(s)

move_section_in(s) ==
    LET moving_idx == s.moving_section_index
    IN IF moving_idx # 0 /\ s.sections[moving_idx].level > 1
       THEN Moved(rebuild_tree([s EXCEPT !.sections[moving_idx].level = @ - 1]), "in")
       ELSE Unmoved(s)

\* a level increase without the upper bound
move_section_out_unclamped(s) ==
    LET moving_idx == s.moving_section_index
    IN IF moving_idx # 0
       THEN Moved(rebuild_tree([s EXCEPT !.sections[moving_idx].level = @ + 1]), "out")
       ELSE Unmoved(s)

move_section_out(s) ==
    LET moving_idx == s.moving_section_index
    IN IF moving_idx # 0 /\ s.sections[moving_idx].level < 6
       THEN Moved(rebuild_tree([s EXCEPT !.sections[moving_idx].level = @ + 1]), "out")
       ELSE Unmoved(s)

save_section_reorder(s, order) ==
    IF s.move_state # "Moved" THEN [st |-> s, ok |-> TRUE]
    ELSE LET written == RewriteFiles(s.disk, order, s.sections, s.fs_fault)
             d == written.disk
             new_sections == reload_all(s.files, d, s.fs_fault)
             m == s.moving_section_index
             note == IF m # 0 /\ m <= Len(s.sections)
                     THEN [log |-> s.move_log, title |-> s.sections[m].title,
                           file |-> s.sections[m].file_path]
                     ELSE NoCommit
             s1 == rebuild_tree([s EXCEPT !.disk = d, !.sections = new_sections])
             s2 == [cancel_move(s1) EXCEPT !.message = "Sections reordered",
                                            !.cancelled = FALSE,
                                            !.save_log = <<>>,
                                            !.n_commits = @ + 1,
                                            !.last_commit = note]
         IN IF written.ok THEN [st |-> s2, ok |-> TRUE]
            ELSE [st |-> [s EXCEPT !.disk = d], ok |-> FALSE]

(***************************************************************************)
(* Hierarchy navigation: each returns a node index, 0 for None             *)
(***************************************************************************)
NodeOf(s, idx) == Position(s.tree_nodes, LAMBDA n : n.section_index = idx)

Least(S) == CHOOSE x \in S : \A y \in S : x <= y
Greatest(S) == CHOOSE x \in S : \A y \in S : y <= x

find_next_node(s) ==
    LET c == {i \in (s.current_node_index + 1)..Len(s.tree_nodes) :
                 s.tree_nodes[i].navigable}
    IN IF c = {} THEN 0 ELSE Least(c)

find_prev_node(s) ==
    LET c == {i \in 1..(s.current_node_index - 1) : s.tree_nodes[i].navigable}
    IN IF c = {} THEN 0 ELSE Greatest(c)

\* the flat next/previous index that the commands wn and wp ask for
find_next_section(s) == find_next_node(s)
find_prev_section(s) == find_prev_node(s)

navigate_to_parent(s) ==
    LET idx == get_current_section_index(s)
    IN IF idx = 0 THEN 0
       ELSE IF s.sections[idx].parent_index = 0 THEN 0
       ELSE NodeOf(s, s.sections[idx].parent_index)

navigate_to_next_descendant(s) ==
    LET idx == get_current_section_index(s)
    IN IF idx = 0 THEN 0
       ELSE IF s.sections[idx].children_indices # <<>>
       THEN NodeOf(s, s.sections[idx].children_indices[1])
       ELSE LET c == {i \in (idx + 1)..Len(s.sections) :
                         s.sections[i].level > s.sections[idx].level}
            IN IF c = {} THEN 0 ELSE NodeOf(s, Least(c))

\* a forward scan that looks for the level anywhere later in the list
navigate_to_next_sibling_anywhere(s) ==
    LET idx == get_current_section_index(s)
    IN IF idx = 0 THEN 0
       ELSE LET lvl == s.sections[idx].level
                c == {i \in (idx + 1)..Len(s.sections) : s.sections[i].level = lvl}
            IN IF c = {} THEN 0 ELSE NodeOf(s, Least(c))

navigate_to_next_sibling(s) ==
    LET idx == get_current_section_index(s)
    IN IF idx = 0 THEN 0
       ELSE LET lvl == s.sections[idx].level
                \* the first entry at which the scan returns or breaks
                c == {i \in (idx + 1)..Len(s.sections) : s.sections[i].level <= lvl}
            IN IF c = {} THEN 0
               ELSE IF s.sections[Least(c)].level = lvl THEN NodeOf(s, Least(c))
               ELSE 0

\* a backward scan that looks for the level anywhere earlier in the list
navigate_to_prev_sibling_anywhere(s) ==
    LET idx == get_current_section_index(s)
    IN IF idx = 0 THEN 0
       ELSE LET lvl == s.sections[idx].level
                c == {i \in 1..(idx - 1) : s.sections[i].level = lvl}
            IN IF c = {} THEN 0 ELSE NodeOf(s, Greatest(c))

navigate_to_prev_sibling(s) ==
    LET idx == get_current_section_index(s)
    IN IF idx = 0 THEN 0
       ELSE LET lvl == s.sections[idx].level
                c == {i \in 1..(idx - 1) : s.sections[i].level <= lvl}
            IN IF c = {} THEN 0
               ELSE IF s.sections[Greatest(c)].level = lvl THEN NodeOf(s, Greatest(c))
               ELSE 0

navigate_to_first(s) == Position(s.tree_nodes, LAMBDA n : n.navigable)
navigate_to_last(s) == RPosition(s.tree_nodes, LAMBDA n : n.navigable)

navigate_to_first_at_level(s) ==
    LET idx == get_current_section_index(s)
    IN IF idx = 0 THEN 0
       ELSE NodeOf(s, Least({i \in 1..Len(s.sections) :
                                s.sections[i].level = s.sections[idx].level}))

navigate_to_last_at_level(s) ==
    LET idx == get_current_section_index(s)
    IN IF idx = 0 THEN 0
       ELSE NodeOf(s, Greatest({i \in 1..Len(s.sections) :
                                   s.sections[i].level = s.sections[idx].level}))

\* "if let Some(i) = target { app.current_section_index = i }"
GoTo(s, target) == IF target # 0 THEN [s EXCEPT !.current_node_index = target] ELSE s

(***************************************************************************)
(* Edit plans of a session                                                 *)
(***************************************************************************)
\* a plan with an Edit for every section, buffered or not
generate_edit_plan_all(s) ==
    [k \in 1..Len(s.sections) |->
        LET section == s.sections[k]
        IN [file_name |-> section.file_path,
            line_start |-> section.line_start,
            line_end |-> section.line_end,
            column_start |-> section.column_start,
            column_end |-> section.column_end,
            doc_comment |-> IF section.doc_comment = <<>> THEN EmptyStr
                            ELSE section.doc_comment,
            item_name |-> section.title]]

\* one Edit for each section whose doc_comment is Some(lines); the text is
\* doc_lines.join("\n")
generate_edit_plan(s) ==
    LET buffered == SelectSeq([k \in 1..Len(s.sections) |-> k],
                              LAMBDA k : s.sections[k].doc_comment # <<>>)
    IN [j \in 1..Len(buffered) |->
          LET section == s.sections[buffered[j]]
          IN [file_name |-> section.file_path,
              line_start |-> section.line_start,
              line_end |-> section.line_end,
              column_start |-> section.column_start,
              column_end |-> section.column_end,
              doc_comment |-> section.doc_comment,
              item_name |-> section.title]]

\* "{file}:{line_start}:{column_start}"
DocKey(file, line_start, column_start) == <<file, line_start, column_start>>

\* load_docs(plan): doc_map takes the lines of every Edit under its key;
\* the loop over the sections looks each key up and reads the file, and
\* its innermost branch is empty, so no section takes any lines
load_docs(s, edits) ==
    LET doc_map == {DocKey(edits[i].file_name, edits[i].line_start,
                           edits[i].column_start) : i \in 1..Len(edits)}
        visit(section) ==
            IF DocKey(section.file_path, section.line_start,
                      section.column_start) \in doc_map
               /\ CanRead(s.fs_fault, section.file_path)
               /\ section.byte_start < ByteLen(s.disk[section.file_path])
               /\ section.byte_end <= ByteLen(s.disk[section.file_path])
            THEN section
            ELSE section
    IN [s EXCEPT !.sections = [k \in 1..Len(s.sections) |-> visit(s.sections[k])],
                 !.loaded = edits]

(***************************************************************************)
(* Session start: main and AppState::new                                   *)
(***************************************************************************)
Unsaved == <<>>

new(doc) ==
    LET all_sections == extract_all(doc.files, doc.disk)
    IN [disk |-> doc.disk, running |-> TRUE,
        sections |-> all_sections,
        tree_nodes |-> build_tree(doc.files, all_sections),
        files |-> doc.files,
        file_mode |-> IF Len(doc.files) = 1 THEN "Single" ELSE "Multi",
        current_view |-> "List", current_node_index |-> 1,
        editor_state |-> NoEditor, command_buffer |-> <<>>,
        message |-> NoMessage, file_offsets |-> NoOffsets,
        move_state |-> "None", moving_section_index |-> 0,
        plan |-> <<>>, plan_status |-> "none", fs_fault |-> NoFault,
        loaded |-> <<>>, report |-> NoReport, difft |-> NoDiff,
        save_log |-> <<>>,
        saved_text |-> [k \in PathSet \X (1..3) |-> Unsaved],
        move_origin |-> NoOrigin, move_log |-> <<>>, cancelled |-> FALSE,
        n_commits |-> 0, last_commit |-> NoCommit, command_from |-> "None",
        n_keys |-> 0]

Starts(s) ==
    /\ disk = s.disk
    /\ running = s.running
    /\ sections = s.sections
    /\ tree_nodes = s.tree_nodes
    /\ files = s.files
    /\ file_mode = s.file_mode
    /\ current_view = s.current_view
    /\ current_node_index = s.current_node_index
    /\ editor_state = s.editor_state
    /\ command_buffer = s.command_buffer
    /\ message = s.message
    /\ file_offsets = s.file_offsets
    /\ move_state = s.move_state
    /\ moving_section_index = s.moving_section_index
    /\ plan = s.plan
    /\ plan_status = s.plan_status
    /\ fs_fault = s.fs_fault
    /\ loaded = s.loaded
    /\ report = s.report
    /\ difft = s.difft
    /\ save_log = s.save_log
    /\ saved_text = s.saved_text
    /\ move_origin = s.move_origin
    /\ move_log = s.move_log
    /\ cancelled = s.cancelled
    /\ n_commits = s.n_commits
    /\ last_commit = s.last_commit
    /\ command_from = s.command_from
    /\ n_keys = s.n_keys

Init == \E doc \in Docs : Starts(new(doc))

\* one key event handled to completion, within the bound of the model
Step(s) ==
    /\ n_keys < (IF fs_fault = NoFault /\ loaded = <<>> THEN MaxKeys ELSE MaxFaultKeys)
    /\ Becomes([s EXCEPT !.n_keys = n_keys + 1])

InView(v) == running /\ current_view = v

(***************************************************************************)
(* run_app: keys of the List view                                          *)
(***************************************************************************)
Modifiers == {"ctrl", "shift", "none"}

ListQ ==
    /\ InView("List")
    /\ IF file_mode = "Multi"
       THEN Step([State EXCEPT !.current_view = "FileList"])
       ELSE Step([State EXCEPT !.running = FALSE])

ListUp(mod) ==
    /\ InView("List")
    /\ Step(IF mod = "ctrl"
            THEN IF move_state = "None" THEN start_move(State)
                 ELSE move_section_up(State).st
            ELSE IF mod = "shift"
            THEN GoTo(State, navigate_to_prev_sibling(State))
            ELSE IF current_node_index > 1
                 THEN [State EXCEPT !.current_node_index = @ - 1]
                 ELSE State)

ListDown(mod) ==
    /\ InView("List")
    /\ Step(IF mod = "ctrl"
            THEN IF move_state = "None" THEN start_move(State)
                 ELSE move_section_down(State).st
            ELSE IF mod = "shift"
            THEN GoTo(State, navigate_to_next_sibling(State))
            ELSE IF current_node_index < Len(sections)
                 THEN [State EXCEPT !.current_node_index = @ + 1]
                 ELSE State)

ListLeft(mod) ==
    /\ InView("List")
    /\ Step(IF mod = "ctrl"
            THEN IF move_state # "None" THEN move_section_in(State).st ELSE State
            ELSE GoTo(State, navigate_to_parent(State)))

ListRight(mod) ==
    /\ InView("List")
    /\ Step(IF mod = "ctrl"
            THEN IF move_state # "None" THEN move_section_out(State).st ELSE State
            ELSE GoTo(State, navigate_to_next_descendant(State)))

ListHome(mod) ==
    /\ InView("List")
    /\ Step(IF mod = "ctrl"
            THEN IF move_state # "None" THEN move_section_to_top(State).st ELSE State
            ELSE IF mod = "shift"
            THEN GoTo(State, navigate_to_first_at_level(State))
            ELSE GoTo(State, navigate_to_first(State)))

ListEnd(mod) ==
    /\ InView("List")
    /\ Step(IF mod = "ctrl"
            THEN IF move_state # "None" THEN move_section_to_bottom(State).st ELSE State
            ELSE IF mod = "shift"
            THEN GoTo(State, navigate_to_last_at_level(State))
            ELSE GoTo(State, navigate_to_last(State)))

ListEsc ==
    /\ InView("List")
    /\ Step(IF move_state # "None" THEN cancel_move(State) ELSE State)

ListColon ==
    /\ InView("List")
    /\ Step([State EXCEPT !.current_view = "Command",
                          !.command_buffer = <<>>,
                          !.message = NoMessage,
                          !.command_from = "List"])

ListEnter ==
    /\ InView("List")
    /\ Step(IF move_state = "None" THEN enter_detail_view(State) ELSE State)

(***************************************************************************)
(* run_app: keys of the Detail view                                        *)
(***************************************************************************)
EditorModes == {"Normal", "Insert"}

\* editor_handler.on_key_event: the widget may change its text and its mode
DetailColon ==
    /\ InView("Detail")
    /\ IF ~editor_state.open THEN Step(State)
       ELSE IF editor_state.mode = "Normal"
       THEN Step([State EXCEPT !.current_view = "Command",
                               !.command_buffer = <<>>,
                               !.message = NoMessage,
                               !.command_from = "Detail"])
       ELSE \E lines \in EditBuffers :
               Step([State EXCEPT !.editor_state.lines = lines])

DetailEsc ==
    /\ InView("Detail")
    /\ IF ~editor_state.open THEN Step(State)
       ELSE IF editor_state.mode = "Normal"
       THEN Step(exit_detail_view(State, FALSE))
       ELSE Step([State EXCEPT !.editor_state.mode = "Normal"])

DetailKey ==
    /\ InView("Detail")
    /\ IF ~editor_state.open THEN Step(State)
       ELSE \E lines \in EditBuffers \cup {editor_state.lines}, mode \in EditorModes :
               Step([State EXCEPT !.editor_state.lines = lines,
                                  !.editor_state.mode = mode])

(***************************************************************************)
(* run_app: keys of the Command view                                       *)
(***************************************************************************)
\* what the model types into the command strip
CmdInputs == {<<>>, <<"w">>, <<"x">>, <<"q">>, <<"w", "n">>, <<"w", "p">>, <<"n">>}
CmdChars == {"w", "x", "q", "n", "p"}

CommandChar(c) ==
    /\ InView("Command")
    /\ Append(command_buffer, c) \in CmdInputs
    /\ Step([State EXCEPT !.command_buffer = Append(@, c)])

CommandBackspace ==
    /\ InView("Command")
    /\ Step([State EXCEPT !.command_buffer =
                IF @ = <<>> THEN @ ELSE SubSeq(@, 1, Len(@) - 1)])

\* "if let Err(e) = result { app.message = Some(format!("Error saving: {e}")) }"
OrError(r) == IF r.ok THEN r.st ELSE [r.st EXCEPT !.message = "Error saving"]

CmdW(s, order) ==
    IF s.move_state = "Moved" THEN OrError(save_section_reorder(s, order))
    ELSE IF s.editor_state.open THEN OrError(save_current(s))
    ELSE [s EXCEPT !.message = "Nothing to save"]

CmdX(s, order) ==
    IF s.move_state = "Moved" THEN OrError(save_section_reorder(s, order))
    ELSE IF s.editor_state.open
    THEN LET r == save_current(s)
         IN IF r.ok THEN exit_detail_view(r.st, TRUE) ELSE OrError(r)
    ELSE s

CmdQ(s) ==
    IF s.editor_state.open THEN exit_detail_view(s, FALSE)
    ELSE IF s.move_state # "None" THEN cancel_move(s)
    ELSE IF s.file_mode = "Multi" THEN [s EXCEPT !.current_view = "FileList"]
    ELSE [s EXCEPT !.running = FALSE]

\* wn and wp: save, then open the section found by find(s)
CmdWStep(s, find(_), none_message) ==
    IF s.editor_state.open
    THEN LET r == save_current(s)
         IN IF ~r.ok THEN OrError(r)
            ELSE IF find(r.st) # 0
            THEN enter_detail_view(
                    [exit_detail_view(r.st, TRUE) EXCEPT
                        !.current_node_index = find(r.st)])
            ELSE [r.st EXCEPT !.message = none_message]
    ELSE s

CmdWn(s) == CmdWStep(s, find_next_section, "No more sections")
CmdWp(s) == CmdWStep(s, find_prev_section, "No previous sections")

\* order: the order in which this command's HashMap of files is iterated
Execute(s, cmd, order) ==
    IF cmd = <<"w">> THEN CmdW(s, order)
    ELSE IF cmd = <<"x">> THEN CmdX(s, order)
    ELSE IF cmd = <<"q">> THEN CmdQ(s)
    ELSE IF cmd = <<"w", "n">> THEN CmdWn(s)
    ELSE IF cmd = <<"w", "p">> THEN CmdWp(s)
    ELSE [s EXCEPT !.message = "Unknown command"]

CommandEnter ==
    /\ InView("Command")
    /\ \E order \in FileOrders :
          LET cmd == command_buffer
              s == Execute([State EXCEPT !.current_view = "List"], cmd, order)
          IN Step([s EXCEPT !.command_buffer = <<>>, !.command_from = "None"])

CommandEsc ==
    /\ InView("Command")
    /\ Step([State EXCEPT !.current_view = "List", !.command_buffer = <<>>,
                          !.command_from = "None"])

(***************************************************************************)
(* Specification                                                           *)
(***************************************************************************)
\* run_tui after run_app has returned Ok: the plan of the session is printed
RunTuiExit ==
    /\ ~running
    /\ plan_status = "none"
    /\ difft.status = "none"
    /\ ~report.printed
    /\ Becomes([State EXCEPT !.report = [printed |-> TRUE,
                                         edits |-> generate_edit_plan(State)]])

Next ==
    \/ ListQ
    \/ \E mod \in Modifiers : ListUp(mod)
    \/ \E mod \in Modifiers : ListDown(mod)
    \/ \E mod \in {"ctrl", "none"} : ListLeft(mod)
    \/ \E mod \in {"ctrl", "none"} : ListRight(mod)
    \/ \E mod \in Modifiers : ListHome(mod)
    \/ \E mod \in Modifiers : ListEnd(mod)
    \/ ListEsc
    \/ ListColon
    \/ ListEnter
    \/ DetailColon
    \/ DetailEsc
    \/ DetailKey
    \/ \E c \in CmdChars : CommandChar(c)
    \/ CommandBackspace
    \/ CommandEnter
    \/ CommandEsc
    \/ RunTuiExit

Spec == Init /\ [][Next]_vars

(***************************************************************************)
(* The patch engine on its own: a plan is drawn and applied once           *)
(***************************************************************************)
\* largest line number an Edit of a drawn plan names
MaxLine == 13

PlanTexts == {<<T("x")>>, <<Empty, T("y"), T("z"), Empty, Empty>>, EmptyStr}

Edit(f, from, to, text) ==
    [file_name |-> f, line_start |-> from, line_end |-> to,
     column_start |-> 0, column_end |-> 1,
     doc_comment |-> text, item_name |-> "test"]

\* the files a plan names, in the order the groups are visited
PlanFiles(edits, order) ==
    SelectSeq(order, LAMBDA f : \E i \in 1..Len(edits) : edits[i].file_name = f)

PatchInit ==
    \E doc \in Docs, from \in 0..MaxLine, to \in 0..MaxLine, text \in PlanTexts :
        /\ from < to
        /\ Starts([new(doc) EXCEPT
                      !.plan = <<Edit("a.md", from, to, text)>>,
                      !.plan_status = "pending"])

\* plan.apply()
ApplyStep ==
    /\ plan_status = "pending"
    /\ \E order \in FileOrders :
          LET r == ApplyPlan(plan, disk, PlanFiles(plan, order), fs_fault)
          IN Becomes([State EXCEPT !.disk = r.disk,
                                   !.plan_status = IF r.ok THEN "ok" ELSE "err"])

\* plan.apply() called once more on the plan that has just been applied
ApplyAgain ==
    /\ plan_status = "ok"
    /\ \E order \in FileOrders :
          LET r == ApplyPlan(plan, disk, PlanFiles(plan, order), fs_fault)
          IN Becomes([State EXCEPT !.disk = r.disk,
                                   !.plan_status = IF r.ok THEN "ok2" ELSE "err2"])

PatchNext == ApplyStep \/ ApplyAgain

PatchSpec == PatchInit /\ [][PatchNext]_vars

(***************************************************************************)
(* Sessions and plans over a file system on which one operation fails      *)
(***************************************************************************)
\* the files are loaded, then one I/O operation on one file fails whenever
\* it is tried
FaultySession ==
    \E doc \in Docs, fault \in Faults :
        Starts([new(doc) EXCEPT !.fs_fault = fault])

\* line ranges of the edits of a drawn plan: a body, and a range that ends
\* past the end of the file
PlanRanges == {<<1, 4>>, <<5, 12>>}

\* a plan with one edit for each of two files is handed to apply(), no
\* event loop running
FaultyPlan ==
    \E fault \in Faults \cup {NoFault}, ra \in PlanRanges, rb \in PlanRanges,
       text \in PlanTexts :
        Starts([new([files |-> AllPaths, disk |-> MultiDisk]) EXCEPT
                   !.plan = <<Edit("a.md", ra[1], ra[2], text),
                              Edit("b.md", rb[1], rb[2], text)>>,
                   !.plan_status = "pending",
                   !.running = FALSE,
                   !.fs_fault = fault])

FaultInit == FaultySession \/ FaultyPlan

FaultNext == Next \/ ApplyStep \/ ApplyAgain

FaultSpec == FaultInit /\ [][FaultNext]_vars

(***************************************************************************)
(* The difftastic format: parse_difftastic_json                            *)
(***************************************************************************)
\* files of one difftastic output
MaxDiffFiles == 2

\* chunks: Option<Vec<Vec<DifftLine>>>
NoChunks == [some |-> FALSE, list |-> <<>>]
SomeChunks(l) == [some |-> TRUE, list |-> l]

\* a DifftLine by the sides it has; a chunk is a list of them
DifftLines == {"both", "lhs"}
Chunks == {<<l>> : l \in DifftLines}
ChunkLists == {<<>>} \cup {<<c>> : c \in Chunks}
                 \cup {<<c1, c2>> : c1 \in Chunks, c2 \in Chunks}
Statuses == {"unchanged", "changed", "created", "deleted"}

\* the display lines of one DifftLine
FormatLine(l) ==
    IF l = "both" THEN <<"-", "+">>
    ELSE IF l = "lhs" THEN <<"-">>
    ELSE IF l = "rhs" THEN <<"+">>
    ELSE <<" ">>

\* format_hunk_content, as the list of its lines
RECURSIVE format_hunk_content(_)
format_hunk_content(chunk) ==
    IF chunk = <<>> THEN <<>>
    ELSE FormatLine(Head(chunk)) \o format_hunk_content(Tail(chunk))

\* format_hunk_title: "Hunk {hunk_idx + 1} ..."
format_hunk_title(chunk, hunk_idx) == [kind |-> "Hunk", n |-> hunk_idx + 1, status |-> ""]

\* format!("File {} (no detailed diff available)", file.status)
StatusTitle(status) == [kind |-> "File", n |-> 0, status |-> status]

DiffSection(title, file_path, from, to, content) ==
    [title |-> title, level |-> 1,
     line_start |-> from, line_end |-> to,
     column_start |-> 0, column_end |-> 0, byte_start |-> 0, byte_end |-> 0,
     file_path |-> file_path, parent_index |-> 0, children_indices |-> <<>>,
     doc_comment |-> <<content>>]

\* the loop over the chunks of one file; returns the sections and the
\* value of global_line after them
RECURSIVE HunkSections(_, _, _, _)
HunkSections(file_path, chunks, hunk_idx, global_line) ==
    IF hunk_idx >= Len(chunks) THEN [sections |-> <<>>, global_line |-> global_line]
    ELSE LET chunk == chunks[hunk_idx + 1]
             hunk_content == format_hunk_content(chunk)
             hunk_start_line == global_line
             hunk_end_line == global_line + Len(hunk_content)
             rest == HunkSections(file_path, chunks, hunk_idx + 1, hunk_end_line + 1)
         IN [sections |->
                <<DiffSection(format_hunk_title(chunk, hunk_idx), file_path,
                              hunk_start_line, hunk_end_line, hunk_content)>>
                   \o rest.sections,
             global_line |-> rest.global_line]

\* the loop "for file in &files" of parse_difftastic_json
RECURSIVE ParseFiles(_, _)
ParseFiles(fs, global_line) ==
    IF fs = <<>> THEN <<>>
    ELSE LET file == Head(fs)
         IN IF file.status = "unchanged" THEN ParseFiles(Tail(fs), global_line)
            ELSE IF file.chunks.some
            THEN LET h == HunkSections(file.path, file.chunks.list, 0, global_line)
                 IN h.sections \o ParseFiles(Tail(fs), h.global_line)
            ELSE IF file.status = "created" \/ file.status = "deleted"
            THEN <<DiffSection(StatusTitle(file.status), file.path,
                               global_line, global_line + 1,
                               <<"File was " \o file.status>>)>>
                    \o ParseFiles(Tail(fs), global_line + 2)
            ELSE ParseFiles(Tail(fs), global_line)

\* parse_difftastic_json for a json_str that deserialises to these files
parse_difftastic_json(fs) == Ok(ParseFiles(fs, 0))

\* difftastic outputs: up to MaxDiffFiles files, each named by its place
DifftFile(i, status, chunks) == [path |-> i, status |-> status, chunks |-> chunks]

DifftOutputs ==
    UNION {[1..n -> Statuses \X ({NoChunks} \cup {SomeChunks(l) : l \in ChunkLists})] :
              n \in 1..MaxDiffFiles}

DiffInit ==
    \E out \in DifftOutputs :
        Starts([new([files |-> <<"a.md">>, disk |-> SingleDisk]) EXCEPT
                   !.running = FALSE,
                   !.difft = [files |-> [i \in DOMAIN out |->
                                            DifftFile(i, out[i][1], out[i][2])],
                              status |-> "pending",
                              sections |-> <<>>]])

ParseStep ==
    /\ difft.status = "pending"
    /\ LET r == parse_difftastic_json(difft.files)
       IN Becomes([State EXCEPT !.difft.status = IF r.ok THEN "ok" ELSE "err",
                                !.difft.sections = IF r.ok THEN r.content ELSE <<>>])

DiffNext == ParseStep

DiffSpec == DiffInit /\ [][DiffNext]_vars

(***************************************************************************)
(* Sessions started with --load-docs                                       *)
(***************************************************************************)
\* persisted plans: one Edit for the first section of a.md, and one Edit
\* for each section of b.md
LoadPlans ==
    {<<Edit("a.md", 1, 4, <<T("x")>>)>>,
     <<Edit("b.md", 1, 4, <<T("y"), T("z")>>), Edit("b.md", 5, 8, <<T("x")>>)>>}

LoadInit ==
    \E doc \in Docs, edits \in LoadPlans : Starts(load_docs(new(doc), edits))

LoadSpec == LoadInit /\ [][Next]_vars

(***************************************************************************)
(* Properties                                                              *)
(***************************************************************************)
\* the headings of a section list, as <<title, level>> pairs
Headings(secs) == [k \in 1..Len(secs) |-> <<secs[k].title, secs[k].level>>]
Titles(secs) == [k \in 1..Len(secs) |-> secs[k].title]
OfFile(secs, f) == SelectSeq(secs, LAMBDA x : x.file_path = f)
OnDisk(d, f) == extract_sections(f, d[f])
InitDisk == IF files = <<"a.md">> THEN SingleDisk
            ELSE IF files = <<"b.md">> THEN TwinDisk
            ELSE MultiDisk

\* the replacement as whole lines: a blank line, then the trimmed text
PaddedLines(text) ==
    <<Empty>> \o (IF Trim(text) = EmptyStr THEN <<Empty>> ELSE Trim(text))

BodyOnDisk(d, f, k) ==
    LET sec == OnDisk(d, f)[k]
    IN Trim(Slice(d[f], sec.line_start, sec.line_end))

RECURSIVE SumAdded(_)
SumAdded(log) ==
    IF log = <<>> THEN 0 ELSE Head(log).added + SumAdded(Tail(log))

IncreasingLines(log) ==
    \A i, j \in 1..Len(log) :
        (i < j /\ log[i].file = log[j].file) => log[i].line < log[j].line

\* C3: after saves in increasing line order, the cumulative offset before
\* line L of a file is the sum of the values recorded by every such save at
\* a line < L (0 for a file without a recorded save).
C3_CumulativeSum ==
    IncreasingLines(save_log) =>
        \A f \in PathSet, L \in 0..(MaxLine + 1) :
            CumulativeBefore(file_offsets, f, L) =
                SumAdded(SelectSeq(save_log,
                                   LAMBDA r : r.file = f /\ r.line < L))

\* C4: right after a reorder commit the tracker holds no entry.
C4_TrackerReset ==
    message = "Sections reordered" => file_offsets = NoOffsets

AllowedMoves ==
    {<<"None", "Selected">>, <<"Selected", "Moved">>,
     <<"Selected", "None">>, <<"Moved", "None">>}

\* C5: the reorder state changes only along Idle->Selected,
\* Selected->Moved, Selected->Idle and Moved->Idle; it becomes Moved only by
\* a move that changes the list, leaves Moved only by a cancel (list and
\* files untouched) or a commit, and no key changes the list while Idle in
\* the List view.
C5_Transitions ==
    [][/\ move_state' # move_state => <<move_state, move_state'>> \in AllowedMoves
       /\ (move_state = "Selected" /\ move_state' = "Moved") =>
              (current_view = "List" /\ sections' # sections)
       /\ (move_state = "Moved" /\ move_state' = "None") =>
              \/ (sections' = sections /\ disk' = disk /\ n_commits' = n_commits)
              \/ (message' = "Sections reordered" /\ n_commits' = n_commits + 1)
       /\ (move_state = "None" /\ current_view = "List") => sections' = sections
      ]_vars

\* a second move has taken effect in state Moved
C5_Witness == move_state = "Moved" /\ Len(move_log) = 2

\* C6: the Detail view is never shown while a reorder is in progress.
C6_NoDetailWhileMoving == current_view = "Detail" => move_state = "None"

\* C7: while a reorder is in progress no key of the List view (move,
\* navigation, cancel) writes a file; on cancel a reparse of each file
\* still gives the headings the list had for that file at start_move.
C7_CancelWritesNothing ==
    [][(move_state # "None" /\ current_view = "List" /\ current_view' = "List") =>
        /\ disk' = disk
        /\ (move_state' = "None" /\ ~cancelled) =>
              \A f \in PathSet :
                  Headings(OnDisk(disk', f)) = Headings(OfFile(move_origin.sections, f))
      ]_vars

\* a reorder with moves was cancelled: the list differs from the files
C7_Witness ==
    /\ cancelled
    /\ move_state = "None"
    /\ n_commits = 0
    /\ disk = InitDisk
    /\ Headings(sections) # Headings(extract_all(files, disk))

Without(seq, t) == SelectSeq(seq, LAMBDA h : h[1] # t)

\* C8: a commit made after a cancelled reorder writes only its own moves:
\* apart from the section it moves, every file keeps its headings (order
\* and levels) as they were on disk.
C8_CancelledNotPersisted ==
    [][(/\ cancelled
        /\ n_commits' # n_commits
        /\ moving_section_index \in 1..Len(sections)) =>
        \A f \in PathSet :
            Without(Headings(OnDisk(disk', f)), sections[moving_section_index].title)
              = Without(Headings(OnDisk(disk, f)), sections[moving_section_index].title)
      ]_vars

\* a commit of a reorder whose last move was "to top"
CommitsTop ==
    /\ n_commits' # n_commits
    /\ move_log # <<>>
    /\ move_log[Len(move_log)] = "top"
    /\ moving_section_index = 1

\* C9 as stated: after move-to-top and save the section's file starts with
\* its heading, and the reparsed list has the order of the list in memory.
C9_RoundTrip ==
    [][CommitsTop =>
        /\ OnDisk(disk', sections[1].file_path)[1].title = sections[1].title
        /\ Titles(sections') = Titles(sections)]_vars

\* C9 amended: ... and reparsing each file gives that file's sections in
\* the order (and with the levels) they had in the list in memory.
C9_RoundTripPerFile ==
    [][CommitsTop =>
        /\ OnDisk(disk', sections[1].file_path)[1].title = sections[1].title
        /\ \A f \in PathSet :
              Headings(OfFile(sections', f)) = Headings(OfFile(sections, f))]_vars

\* a move to the top has been committed in a session with several files
C9_Witness ==
    /\ file_mode = "Multi"
    /\ last_commit.log # <<>>
    /\ last_commit.log[Len(last_commit.log)] = "top"
    /\ message = "Sections reordered"
    /\ sections # <<>>
    /\ OnDisk(disk, last_commit.file)[1].title = last_commit.title

\* a list with entry i moved two slots later and raised by one level
TwoLaterOneUp(hs, i) ==
    [k \in 1..Len(hs) |->
        IF k < i \/ k > i + 2 THEN hs[k]
        ELSE IF k < i + 2 THEN hs[k + 1]
        ELSE <<hs[i][1], hs[i][2] - 1>>]

\* the position, within its file, of entry i of a list
PlaceInFile(secs, i) ==
    Cardinality({j \in 1..i : secs[j].file_path = secs[i].file_path})

\* a commit of exactly: move down, move down, move level-in
CommitsScenarioC ==
    /\ n_commits' # n_commits
    /\ move_log = <<"down", "down", "in">>

ScenarioCResult ==
    LET o == move_origin.sections
        i == move_origin.index
        f == o[i].file_path
    IN Headings(OnDisk(disk', f))
         = TwoLaterOneUp(Headings(OfFile(o, f)), PlaceInFile(o, i))

\* C10 as stated: the commit leaves the section two slots later in its
\* file, with one marker fewer, the other sections as they were.
C10_ScenarioC ==
    [][CommitsScenarioC =>
        (PlaceInFile(move_origin.sections, move_origin.index) + 2
            <= Len(OfFile(move_origin.sections,
                          move_origin.sections[move_origin.index].file_path))
         /\ ScenarioCResult)]_vars

\* C10 amended: ... provided the two entries after the section in the list
\* belong to its file.
C10_ScenarioCSameFile ==
    [][(/\ CommitsScenarioC
        /\ LET o == move_origin.sections
               i == move_origin.index
           IN o[i + 1].file_path = o[i].file_path
              /\ o[i + 2].file_path = o[i].file_path) =>
        (/\ ScenarioCResult
         /\ \A f \in PathSet \ {move_origin.sections[move_origin.index].file_path} :
               Headings(OnDisk(disk', f)) = Headings(OfFile(move_origin.sections, f)))
      ]_vars

\* scenario C has been committed
C10_Witness ==
    /\ last_commit.log = <<"down", "down", "in">>
    /\ message = "Sections reordered"
    /\ Headings(OnDisk(disk, "a.md")) = <<<<"B", 1>>, <<"C", 2>>, <<"A", 1>>>>

RECURSIVE DropBlankHead(_)
DropBlankHead(ls) ==
    IF ls # <<>> /\ Head(ls) = Empty THEN DropBlankHead(Tail(ls)) ELSE ls

RECURSIVE DropBlankTail(_)
DropBlankTail(ls) ==
    IF ls # <<>> /\ ls[Len(ls)] = Empty
    THEN DropBlankTail(SubSeq(ls, 1, Len(ls) - 1)) ELSE ls

\* the lines of a section's body in its file, without the blank lines
\* around them
BodyLines(c, sec) ==
    DropBlankTail(DropBlankHead(SubSeq(c, sec.line_start + 1, sec.line_end)))

\* heading line, blank line, body lines, blank line
SectionBlock(c, sec) ==
    <<H(sec.level, sec.title), Empty>>
       \o (IF BodyLines(c, sec) = <<>> THEN <<>> ELSE BodyLines(c, sec) \o <<Empty>>)

RECURSIVE Blocks(_, _)
Blocks(c, secs) ==
    IF secs = <<>> THEN <<>>
    ELSE SectionBlock(c, Head(secs)) \o Blocks(c, Tail(secs))

\* C11: a reorder commit rewrites each file that has sections as, for each
\* of its sections in list order: the heading line (level markers, space,
\* title), a blank line, the trimmed body and a blank line, so that one
\* blank line separates the sections; a section without body text is its
\* heading and one blank line.
C11_RewrittenFormat ==
    [][n_commits' # n_commits =>
        \A f \in PathSet :
            OfFile(sections, f) # <<>> =>
                disk'[f] = Blocks(disk[f], OfFile(sections, f)) \o <<Empty>>]_vars

\* a commit has rewritten a file whose sections had changed place
C11_Witness ==
    /\ n_commits = 1
    /\ message = "Sections reordered"
    /\ Titles(OnDisk(disk, "a.md")) = <<"B", "A", "C">>
    /\ BodyLines(disk["a.md"], OnDisk(disk, "a.md")[1]) = <<T("b")>>

\* the Enter key in the Command view is about to run save_current
SavesSection ==
    /\ current_view = "Command"
    /\ editor_state.open
    /\ get_current_section_index(State) # 0
    /\ \/ command_buffer \in {<<"w", "n">>, <<"w", "p">>}
       \/ command_buffer \in {<<"w">>, <<"x">>} /\ move_state # "Moved"

SavedSection == sections[get_current_section_index(State)]

\* a section list without the buffered texts
WithoutBuffers(secs) == [k \in 1..Len(secs) |-> [secs[k] EXCEPT !.doc_comment = <<>>]]

\* C12: when a step of a section save fails on the section's file (the
\* patch cannot be read or written, or the reparse fails), the command
\* reports the error, and the section list, the selection and the offset
\* tracker stay as they were.
C12_SaveFailureSurfaced ==
    [][(CommandEnter /\ SavesSection /\ fs_fault.file = SavedSection.file_path) =>
        /\ message' = "Error saving"
        /\ current_node_index' = current_node_index
        /\ file_offsets' = file_offsets
        /\ WithoutBuffers(sections') = WithoutBuffers(sections)]_vars

\* the file of the section being saved, with the buffer patched in at the
\* section's coordinates
PatchedFile ==
    LET sec == SavedSection
        before == disk[sec.file_path]
    IN SubSeq(before, 1, sec.line_start)
          \o PaddedLines(editor_state.lines)
          \o SubSeq(before, sec.line_end + 1, Len(before))

\* C13: when the write of a save succeeds and the reparse fails, the file
\* keeps what was written and the section list keeps its sections, their
\* order and their coordinates of before the save.
C13_ReparseFailureKeepsList ==
    [][(/\ CommandEnter
        /\ SavesSection
        /\ fs_fault = [op |-> "parse", file |-> SavedSection.file_path]
        /\ message' # "Error saving") =>
        /\ disk' = [disk EXCEPT ![SavedSection.file_path] = PatchedFile]
        /\ WithoutBuffers(sections') = WithoutBuffers(sections)]_vars

\* a save was written, its reparse failed: the list has the coordinates of
\* the files as loaded, which are not those of the files as they are now
C13_Witness ==
    /\ fs_fault.op = "parse"
    /\ message = "Saved"
    /\ disk # InitDisk
    /\ WithoutBuffers(sections) = WithoutBuffers(extract_all(files, InitDisk))
    /\ WithoutBuffers(sections) # WithoutBuffers(extract_all(files, disk))

\* C14: a command whose save fails leaves the session in the List view
\* with the reorder state Idle, a message shown and the loop running.
C14_FailedSaveBaseline ==
    [][(CommandEnter /\ message' = "Error saving") =>
        /\ current_view' = "List"
        /\ move_state' = "None"
        /\ running']_vars

\* d2 is d after a loop over the files that stopped at the first failing
\* file: files before it have their new content, that file and the files
\* after it are as they were
StoppedAtFailure(d, d2, Fails(_), NewContent(_)) ==
    \E order \in FileOrders : \E k \in 1..Len(order) :
        /\ Fails(order[k])
        /\ \A j \in 1..(k - 1) : ~Fails(order[j]) /\ d2[order[j]] = NewContent(order[j])
        /\ \A j \in k..Len(order) : d2[order[j]] = d[order[j]]

\* the edit of a plan for a file (plans here hold at most one per file)
EditOf(f) == plan[CHOOSE i \in 1..Len(plan) : plan[i].file_name = f]
InPlan(f) == \E i \in 1..Len(plan) : plan[i].file_name = f

PlanFails(f) ==
    /\ InPlan(f)
    /\ \/ fs_fault.file = f /\ fs_fault.op \in {"read", "write"}
       \/ EditOf(f).line_end >= Len(disk[f])

PlanContent(f) ==
    IF InPlan(f)
    THEN SubSeq(disk[f], 1, EditOf(f).line_start)
            \o PaddedLines(EditOf(f).doc_comment)
            \o SubSeq(disk[f], EditOf(f).line_end + 1, Len(disk[f]))
    ELSE disk[f]

CommitFails(f) ==
    /\ OfFile(sections, f) # <<>>
    /\ fs_fault.file = f /\ fs_fault.op \in {"read", "write"}

CommitContent(f) ==
    IF OfFile(sections, f) # <<>>
    THEN Blocks(disk[f], OfFile(sections, f)) \o <<Empty>>
    ELSE disk[f]

\* C15: a plan over several files, or a reorder commit, that fails on one
\* file reports the error, has written the files it processed before that
\* file, and leaves that file and the later ones untouched.
C15_PartialFailure ==
    [][/\ (plan_status = "pending" /\ plan_status' # "pending"
           /\ \E f \in PathSet : PlanFails(f)) =>
              (/\ plan_status' = "err"
               /\ StoppedAtFailure(disk, disk', PlanFails, PlanContent))
       /\ (CommandEnter /\ move_state = "Moved"
           /\ command_buffer \in {<<"w">>, <<"x">>}
           /\ \E f \in PathSet : CommitFails(f)) =>
              (/\ message' = "Error saving"
               /\ StoppedAtFailure(disk, disk', CommitFails, CommitContent))
      ]_vars

\* a reorder commit over two files failed on the second one, after the
\* first was rewritten
C15_Witness ==
    /\ message = "Error saving"
    /\ move_state = "Moved"
    /\ \E f, g \in PathSet :
          /\ fs_fault.file = g
          /\ disk[g] = InitDisk[g]
          /\ disk[f] # InitDisk[f]

\* the save of the open buffer has reached the file
Persisted ==
    /\ message' # "Error saving"
    /\ disk' = [disk EXCEPT ![SavedSection.file_path] = PatchedFile]

\* C16: a command given from the Detail view ends as the transition table
\* says: w saves and stays in Detail with the buffer open; x saves and
\* leaves to List; wn and wp save and end in List with the next or the
\* previous section selected; q ends in List, the buffer dropped and
\* nothing written.
C16_CommandTransitions ==
    [][(CommandEnter /\ command_from = "Detail"
          /\ get_current_section_index(State) # 0) =>
        /\ command_buffer = <<"w">> =>
              (Persisted /\ current_view' = "Detail" /\ editor_state'.open)
        /\ command_buffer = <<"x">> =>
              (Persisted /\ current_view' = "List" /\ ~editor_state'.open)
        /\ (command_buffer = <<"w", "n">> /\ find_next_node(State) # 0) =>
              (/\ Persisted
               /\ current_view' = "List"
               /\ current_node_index' = find_next_node(State))
        /\ (command_buffer = <<"w", "p">> /\ find_prev_node(State) # 0) =>
              (/\ Persisted
               /\ current_view' = "List"
               /\ current_node_index' = find_prev_node(State))
        /\ command_buffer = <<"q">> =>
              (disk' = disk /\ current_view' = "List" /\ ~editor_state'.open)
      ]_vars

\* the sections of the saved section's file, after the step, that have its
\* title and level
MatchesAfter ==
    {k \in 1..Len(sections') :
        /\ sections'[k].file_path = SavedSection.file_path
        /\ sections'[k].title = SavedSection.title
        /\ sections'[k].level = SavedSection.level}

SelectedAfter == tree_nodes'[current_node_index'].section_index

\* C17: after a save (w or x) whose reparse finds sections with the title
\* and level of the edited section, the selection is on the first of them
\* in the file.
C17_FirstMatchSelected ==
    [][(/\ CommandEnter
        /\ SavesSection
        /\ command_buffer \in {<<"w">>, <<"x">>}
        /\ message' = "Saved"
        /\ MatchesAfter # {}) =>
        /\ SelectedAfter \in MatchesAfter
        /\ \A k \in MatchesAfter :
              sections'[SelectedAfter].line_start <= sections'[k].line_start]_vars

\* the second of two sections with the same title and level has been
\* saved: its text is on disk and the selection is on the first one
C17_Witness ==
    /\ files = <<"b.md">>
    /\ message = "Saved"
    /\ get_current_section_index(State) = 1
    /\ saved_text[<<"b.md", 2>>] # Unsaved
    /\ saved_text[<<"b.md", 1>>] = Unsaved

\* the sections of the saved section's file after the step
SplicedAfter ==
    {k \in 1..Len(sections') : sections'[k].file_path = SavedSection.file_path}

\* C18: when the reparse after a save (w or x) finds no section with the
\* title and level of the edited section, the save still succeeds and the
\* selection is on the last of the file's reparsed sections.
C18_NoMatchFallback ==
    [][(/\ CommandEnter
        /\ SavesSection
        /\ command_buffer \in {<<"w">>, <<"x">>}
        /\ MatchesAfter = {}
        /\ SplicedAfter # {}) =>
        /\ message' = "Saved"
        /\ SelectedAfter = Greatest(SplicedAfter)]_vars

\* the lines between the k-th heading of a file on disk and the next
\* heading (or the end of the text)
RawBody(d, f, k) ==
    LET sec == OnDisk(d, f)[k]
    IN SubSeq(d[f], sec.line_start + 1, sec.line_end)

\* one blank line, text, one blank line
UniformlyPadded(body) ==
    /\ Len(body) >= 3
    /\ body[1] = Empty
    /\ body[2] # Empty
    /\ body[Len(body) - 1] # Empty
    /\ body[Len(body)] = Empty

\* C19: the text substituted for an Edit is newline + trim(content) +
\* newline, also for the padded text that save_current builds, and every
\* section body persisted by a save begins and ends with exactly one blank
\* line.
C19_UniformPadding ==
    /\ \A b \in EditBuffers :
          Replacement(Cat(Cat(Cat(NL, Trim(b)), NL), NL)) = Cat(Cat(NL, Trim(b)), NL)
    /\ n_commits = 0 =>
          \A f \in PathSet : \A k \in 1..Len(OnDisk(disk, f)) :
              saved_text[<<f, k>>] # Unsaved => UniformlyPadded(RawBody(disk, f, k))

\* C20: applying a plan of one Edit a second time, right after it has been
\* applied, leaves every file as the first application left it.
C20_ApplyTwice ==
    [][(plan_status = "ok" /\ plan_status' \in {"ok2", "err2"} /\ Len(plan) = 1) =>
        disk' = disk]_vars

\* the place of the section being saved among the sections of its file
SavedRank == RankInFile(sections, get_current_section_index(State))

\* lines of the saved section's body after the step minus lines before it
NetLines ==
    Len(RawBody(disk', SavedSection.file_path, SavedRank))
        - Len(RawBody(disk, SavedSection.file_path, SavedRank))

\* C21: the value the offset tracker records for a saved section is the
\* net number of lines the save added or removed there: the lines of the
\* section body after the save minus the lines before it.
C21_NetLinesRecorded ==
    [][(CommandEnter /\ SavesSection /\ message' = "Saved") =>
        LET f == SavedSection.file_path
        IN /\ f \in DOMAIN file_offsets'
           /\ \A l \in DOMAIN file_offsets'[f] :
                 file_offsets'[f][l] = NetLines]_vars

\* Ctrl+Left / Ctrl+Right has been pressed while a reorder is in progress
LevelKey(key) ==
    /\ move_state # "None"
    /\ moving_section_index # 0
    /\ IF key = "in" THEN ListLeft("ctrl") ELSE ListRight("ctrl")

\* C22: every section's level stays in 1..6; a move-in lowers the level of
\* the moving section by exactly 1 and a move-out raises it by exactly 1,
\* no other level changes, and at the bound (1 for move-in, 6 for
\* move-out) the level is left as it is.
C22_LevelsClamped ==
    [][/\ \A k \in 1..Len(sections') : sections'[k].level \in 1..6
       /\ LevelKey("in") =>
             Headings(sections') =
                 [Headings(sections) EXCEPT ![moving_section_index][2] =
                      IF @ > 1 THEN @ - 1 ELSE @]
       /\ LevelKey("out") =>
             Headings(sections') =
                 [Headings(sections) EXCEPT ![moving_section_index][2] =
                      IF @ < 6 THEN @ + 1 ELSE @]]_vars

\* a section has been moved out to level 6 and Ctrl+Right pressed again
C22_Witness ==
    /\ move_state = "Moved"
    /\ moving_section_index # 0
    /\ sections[moving_section_index].level = 6
    /\ n_keys >= 6
    /\ \E k \in 1..Len(sections) : sections[k].level = 1

\* C23: in every reachable state of the live section list, also while a
\* reorder is in progress, every section that has a parent_index has a
\* level strictly greater than the level of the section at that index.
C23_DeeperThanParent ==
    \A k \in 1..Len(sections) :
        sections[k].parent_index # 0 =>
            /\ sections[k].parent_index \in 1..Len(sections)
            /\ sections[k].level > sections[sections[k].parent_index].level

\* C24: in every reachable state of the live section list each section's
\* children_indices are valid indices in increasing order, and each listed
\* child's parent_index is the index of that section.
C24_ChildrenLinked ==
    \A k \in 1..Len(sections) :
        LET ch == sections[k].children_indices
        IN /\ \A i \in 1..Len(ch) :
                 /\ ch[i] \in 1..Len(sections)
                 /\ sections[ch[i]].parent_index = k
           /\ \A i, j \in 1..Len(ch) : i < j => ch[i] < ch[j]

\* the selected section is the last of its level before a shallower one,
\* and sections of its level follow further down the list
LastChildBeforeShallower ==
    LET idx == get_current_section_index(State)
    IN /\ idx # 0
       /\ \E j \in (idx + 1)..Len(sections) :
             /\ sections[j].level < sections[idx].level
             /\ \A i \in (idx + 1)..(j - 1) : sections[i].level > sections[idx].level
             /\ \E i \in (j + 1)..Len(sections) : sections[i].level = sections[idx].level

\* C25: from the last child of a subtree, with a shallower section next
\* and sections of the same level after it, next-sibling navigation
\* returns None and Shift+Down leaves the selection where it is.
C25_SiblingScanStops ==
    [][(ListDown("shift") /\ LastChildBeforeShallower) =>
        /\ navigate_to_next_sibling(State) = 0
        /\ current_node_index' = current_node_index]_vars

\* Shift+Down has been pressed on '## A', followed by '# B' and '## C'
C25_Witness ==
    /\ LastChildBeforeShallower
    /\ Headings(sections) = <<<<"A", 2>>, <<"B", 1>>, <<"C", 2>>>>
    /\ get_current_section_index(State) = 1
    /\ current_view = "List"
    /\ n_keys >= 1

\* the Edit that carries a section's file, line range, column span, title
\* and buffered lines
EditFor(section) ==
    [file_name |-> section.file_path,
     line_start |-> section.line_start, line_end |-> section.line_end,
     column_start |-> section.column_start, column_end |-> section.column_end,
     doc_comment |-> section.doc_comment,
     item_name |-> section.title]

RECURSIVE BufferedEdits(_)
BufferedEdits(secs) ==
    IF secs = <<>> THEN <<>>
    ELSE (IF Head(secs).doc_comment # <<>> THEN <<EditFor(Head(secs))>> ELSE <<>>)
            \o BufferedEdits(Tail(secs))

\* C26: generate_edit_plan emits exactly one Edit per section that carries
\* buffered content, in section-list order, with that section's file, line
\* range, column span and title, and none for a section without buffered
\* content; the plan printed when the session ends is that plan.
C26_OneEditPerBuffered ==
    /\ generate_edit_plan(State) = BufferedEdits(sections)
    /\ report.printed => report.edits = BufferedEdits(sections)

\* a session has ended with the second of three sections buffered
C26_Witness ==
    /\ report.printed
    /\ Len(sections) = 3
    /\ Len(report.edits) = 1
    /\ report.edits[1].item_name = "B"
    /\ sections[1].doc_comment = <<>>

\* C27: after a section is edited, saved with save_current and left with
\* exit_detail_view(true) (the x command), generate_edit_plan is not empty
\* and its Edit for that section has the edited text without the blank
\* padding lines around it as doc_comment.
C27_PlanCapturesEdit ==
    [][(CommandEnter /\ SavesSection /\ command_buffer = <<"x">>
           /\ editor_state.lines \in EditBuffers /\ message' = "Saved") =>
        /\ BufferedEdits(sections') # <<>>
        /\ SelectedAfter # 0
        /\ \E i \in 1..Len(BufferedEdits(sections')) :
              /\ BufferedEdits(sections')[i] = EditFor(sections'[SelectedAfter])
              /\ BufferedEdits(sections')[i].doc_comment = Trim(editor_state.lines)]_vars

\* the Edit names the section: same file, line_start and column_start
Names(edit, section) ==
    /\ edit.file_name = section.file_path
    /\ edit.line_start = section.line_start
    /\ edit.column_start = section.column_start

\* C28: right after a session is started from a persisted plan, every
\* section that an Edit of the plan names carries that Edit's text as its
\* buffered content, and generate_edit_plan returns an Edit with that text
\* for it.
C28_LoadRestores ==
    (loaded # <<>> /\ n_keys = 0 /\ running) =>
        \A i \in 1..Len(loaded) : \A k \in 1..Len(sections) :
            Names(loaded[i], sections[k]) =>
                /\ sections[k].doc_comment = loaded[i].doc_comment
                /\ \E j \in 1..Len(generate_edit_plan(State)) :
                      /\ Names(generate_edit_plan(State)[j], sections[k])
                      /\ generate_edit_plan(State)[j].doc_comment = loaded[i].doc_comment

\* the sections that the parser returned for the i-th file
SectionsOfFile(i) ==
    SelectSeq(difft.sections, LAMBDA x : x.file_path = difft.files[i].path)

\* C30: parse_difftastic_json yields no section for a file whose status is
\* "unchanged" and at least one level-1 section for every file with any
\* other status, also for a "changed" file without chunks.
C30_SectionsByStatus ==
    difft.status = "ok" =>
        \A i \in 1..Len(difft.files) :
            IF difft.files[i].status = "unchanged"
            THEN SectionsOfFile(i) = <<>>
            ELSE \E k \in 1..Len(SectionsOfFile(i)) : SectionsOfFile(i)[k].level = 1

\* a section is told from the others by its file and its coordinates
KeyOf(section) == <<section.file_path, section.line_start>>
KeysOf(secs) == {KeyOf(secs[k]) : k \in 1..Len(secs)}

\* the section picked at start_move
Picked == move_origin.sections[move_origin.index]

\* a move key is handled during a reorder and changes the section list
EffectiveMove ==
    /\ move_state # "None"
    /\ move_origin.index # 0
    /\ KeysOf(sections) = KeysOf(move_origin.sections)
    /\ \/ ListUp("ctrl") \/ ListDown("ctrl")
       \/ ListHome("ctrl") \/ ListEnd("ctrl")
       \/ ListLeft("ctrl") \/ ListRight("ctrl")
    /\ sections' # sections

\* C31: after every move action that takes effect, moving_section_index
\* is the new index of the section picked at start_move and the current
\* selection is on that section, also when the selection was moved to
\* another section after start_move.
C31_SelectionFollowsMove ==
    [][EffectiveMove =>
        /\ moving_section_index' \in 1..Len(sections')
        /\ KeyOf(sections'[moving_section_index']) = KeyOf(Picked)
        /\ SelectedAfter = moving_section_index']_vars

\* section j lies in the subtree of section idx: it comes after idx and
\* the list has not returned to the level of idx or less in between
InSubtree(secs, idx, j) ==
    /\ idx < j
    /\ j <= Len(secs)
    /\ \A i \in (idx + 1)..j : secs[i].level > secs[idx].level

\* C32: next-descendant navigation returns only descendants of the
\* current section: whenever it returns a node, that node is a section
\* inside the current section's subtree.
C32_DescendantInSubtree ==
    LET idx == get_current_section_index(State)
        t == navigate_to_next_descendant(State)
    IN (running /\ current_view = "List" /\ idx # 0 /\ t # 0) =>
           /\ tree_nodes[t].section_index # 0
           /\ InSubtree(sections, idx, tree_nodes[t].section_index)

\* C33: whenever the tree has a navigable (section) node, the current
\* selection is on a navigable node.
C33_SelectionNavigable ==
    (\E i \in 1..Len(tree_nodes) : tree_nodes[i].navigable) =>
        /\ current_node_index \in 1..Len(tree_nodes)
        /\ tree_nodes[current_node_index].navigable

\* C34: in every reachable state with current_view = List no editor
\* buffer is open, so that a save can only write a buffer into the section
\* it was loaded from.
C34_NoBufferInList ==
    current_view = "List" => ~editor_state.open

\* C35: whenever current_view = Detail an editor buffer is present, also
\* when reading the section's file fails in enter_detail_view.
C35_DetailHasBuffer ==
    current_view = "Detail" => editor_state.open

\* C36: in every reachable state move_state = None exactly when
\* moving_section_index is None, and a moving_section_index Some(i) is a
\* valid index of the section list whose entry is the section picked at
\* start_move (it has the file and the title of that section).
C36_MovingIndexDesignatesPicked ==
    /\ (move_state = "None") <=> (moving_section_index = 0)
    /\ moving_section_index # 0 =>
        /\ moving_section_index \in 1..Len(sections)
        /\ move_origin.index # 0
        /\ sections[moving_section_index].file_path = Picked.file_path
        /\ sections[moving_section_index].title = Picked.title

(***************************************************************************)
(* A session on a document that has text before its first heading          *)
(***************************************************************************)
PreambleDisk ==
    [f \in PathSet |->
        IF f = "a.md"
        THEN <<T("p"), Empty, H(2, "A")>> \o Body("a") \o <<H(1, "B")>> \o Body("b")
                \o <<Empty>>
        ELSE EmptyStr]

PreambleInit == Starts(new([files |-> <<"a.md">>, disk |-> PreambleDisk]))

PreambleSpec == PreambleInit /\ [][Next]_vars

\* the lines of a text that are neither blank nor headings
TextLines(c) == {c[k] : k \in {j \in 1..Len(c) : ~IsHeading(c[j]) /\ c[j] # Empty}}
TitleSet(secs) == {secs[k].title : k \in 1..Len(secs)}

\* C37: a reorder commit loses no content: every file it rewrites holds
\* afterwards every non-blank text line it held before (section bodies and
\* text before the first heading) and the same set of section titles.
C37_CommitKeepsContent ==
    [][n_commits' # n_commits =>
        \A f \in PathSet :
            OfFile(sections, f) # <<>> =>
                /\ TextLines(disk[f]) \subseteq TextLines(disk'[f])
                /\ TitleSet(OnDisk(disk', f)) = TitleSet(OnDisk(disk, f))]_vars

\* the position of a section among the sections parsed from its file
PlaceOnDisk(d, section) ==
    Cardinality({k \in 1..Len(OnDisk(d, section.file_path)) :
                    OnDisk(d, section.file_path)[k].line_start <= section.line_start})

\* the saved section is where the file has a heading of its title and level
SavedSectionOnDisk ==
    LET on_disk == OnDisk(disk, SavedSection.file_path)
        k == PlaceOnDisk(disk, SavedSection)
    IN /\ k \in 1..Len(on_disk)
       /\ on_disk[k].line_start = SavedSection.line_start
       /\ on_disk[k].title = SavedSection.title
       /\ on_disk[k].level = SavedSection.level

\* C38: after a save (w or x) and reparse that leave the headings of the
\* file as they were, the selection is on the section that was edited: the
\* section at the same position in its file, also among sections that share
\* title and level.
C38_SameSectionSelected ==
    [][(/\ CommandEnter
        /\ SavesSection
        /\ command_buffer \in {<<"w">>, <<"x">>}
        /\ message' = "Saved"
        /\ SavedSectionOnDisk
        /\ Headings(OnDisk(disk', SavedSection.file_path))
              = Headings(OnDisk(disk, SavedSection.file_path))) =>
        /\ SelectedAfter \in 1..Len(sections')
        /\ sections'[SelectedAfter].file_path = SavedSection.file_path
        /\ PlaceOnDisk(disk', sections'[SelectedAfter])
              = PlaceOnDisk(disk, SavedSection)]_vars

\* a key of the List view that starts a reorder or moves the picked section
MoveKey ==
    \/ ListUp("ctrl") \/ ListDown("ctrl")
    \/ ListHome("ctrl") \/ ListEnd("ctrl")
    \/ ListLeft("ctrl") \/ ListRight("ctrl")

\* a section without its level
Levelless(section) == [section EXCEPT !.level = 0]

\* after holds the entries of before, each once, at the places p gives
\* them; only the entry that ends at place m may have another level
MovedCopy(before, after, m) ==
    /\ Len(after) = Len(before)
    /\ \E p \in Permutations(1..Len(before)) :
          \A k \in 1..Len(before) :
              /\ Levelless(after[p[k]]) = Levelless(before[k])
              /\ after[p[k]].level # before[k].level => p[k] = m

\* C39: every move action leaves the section list a permutation of the
\* list before it (hence of the list at start_move): no section is lost or
\* duplicated, the length is unchanged, and apart from the places of the
\* entries only the level of the moving section differs.
C39_MovesPermute ==
    [][(sections' # sections /\ MoveKey) =>
        MovedCopy(sections, sections', moving_section_index')]_vars

\* a reorder has moved the picked section to the top and changed its level
C39_Witness ==
    /\ move_state = "Moved"
    /\ move_log = <<"top", "out">>
    /\ moving_section_index = 1
    /\ sections # move_origin.sections
    /\ MovedCopy(move_origin.sections, sections, 1)

\* the session with the selection on node a
SelectionOn(a) == [State EXCEPT !.current_node_index = a]

\* C40: next-sibling and previous-sibling navigation are inverse on the
\* section list of every reachable state: if next-sibling from a yields b
\* then previous-sibling from b yields a, and the other way round.
C40_SiblingsInverse ==
    \A a \in 1..Len(tree_nodes) :
        LET b == navigate_to_next_sibling(SelectionOn(a))
            z == navigate_to_prev_sibling(SelectionOn(a))
        IN /\ b # 0 => navigate_to_prev_sibling(SelectionOn(b)) = a
           /\ z # 0 => navigate_to_next_sibling(SelectionOn(z)) = a

\* the selected section has a next sibling beyond deeper entries, and the
\* previous sibling of that one is the selected section
C40_Witness ==
    LET b == navigate_to_next_sibling(State)
    IN /\ b > current_node_index + 1
       /\ sections[tree_nodes[b].section_index].level > 1
       /\ navigate_to_prev_sibling(SelectionOn(b)) = current_node_index

====
